---- MODULE Spec2Model ----
(***************************************************************************)
(* A model of src/main.py, the Streamlit stock-market dashboard: one run   *)
(* of the script (data loading, preprocessing, indicator calculation,      *)
(* sidebar filter, the four tabs and the raw-data expander), and the       *)
(* indicator transforms (rolling mean, compute_rsi, ewm mean / MACD) as    *)
(* operators over float64 values modelled as exact rationals with the      *)
(* IEEE-754 special values (NaN, +/-inf, signed zero).                     *)
(***************************************************************************)
EXTENDS Integers, Sequences, FiniteSets, TLC

VARIABLES
    pc,               \* position of the script run
    uploaded_file,    \* st.file_uploader's value: NoFile or a table
    default_exists,   \* os.path.exists('Nifty_Stocks.csv')
    source,           \* which file pd.read_csv read: "none", "upload", "default"
    raw,              \* the table as read by pd.read_csv (before preprocessing)
    df,               \* the data frame `df`
    selected_symbols, \* st.sidebar.multiselect's value
    date_range,       \* st.sidebar.date_input's value, <<start, end>>
    filtered_df,      \* the data frame `filtered_df`: <<[index, row], ...>>
    output,           \* what the run has rendered so far, by place
    series,           \* input of an indicator transform (one symbol's Close)
    result            \* output of an indicator transform

vars == <<pc, uploaded_file, default_exists, source, raw, df, selected_symbols,
          date_range, filtered_df, output, series, result>>

runVars == <<pc, uploaded_file, default_exists, source, raw, df, selected_symbols,
             date_range, filtered_df, output>>

(***************************************************************************)
(* float64 values.  A finite value is sign s, magnitude n/d in lowest      *)
(* terms; zero keeps its sign, as in IEEE-754.                             *)
(***************************************************************************)
RECURSIVE Gcd(_, _)
Gcd(a, b) == IF b = 0 THEN a ELSE Gcd(b, a % b)

Abs(x) == IF x < 0 THEN -x ELSE x

NaN == [k |-> "nan", s |-> 1, n |-> 0, d |-> 1]

Inf(sgn) == [k |-> "inf", s |-> sgn, n |-> 0, d |-> 1]

Zero(sgn) == [k |-> "num", s |-> sgn, n |-> 0, d |-> 1]

\* the float whose value is sn/sd (sd # 0); a zero result gets the sign zs
Num(sn, sd, zs) ==
    IF sn = 0 THEN Zero(zs)
    ELSE LET g == Gcd(Abs(sn), Abs(sd))
         IN  [k |-> "num",
              s |-> IF (sn < 0) = (sd < 0) THEN 1 ELSE -1,
              n |-> Abs(sn) \div g,
              d |-> Abs(sd) \div g]

F(i) == Num(i, 1, 1)

IsNaN(a) == a.k = "nan"

IsZero(a) == a.k = "num" /\ a.n = 0

\* signed numerator of a finite value
SN(a) == a.s * a.n

FNeg(a) == IF IsNaN(a) THEN a ELSE [a EXCEPT !.s = -a.s]

FAdd(a, b) ==
    IF IsNaN(a) \/ IsNaN(b) THEN NaN
    ELSE IF a.k = "inf" /\ b.k = "inf" THEN (IF a.s = b.s THEN a ELSE NaN)
    ELSE IF a.k = "inf" THEN a
    ELSE IF b.k = "inf" THEN b
    ELSE Num(SN(a) * b.d + SN(b) * a.d, a.d * b.d,
             IF IsZero(a) /\ IsZero(b) /\ a.s = -1 /\ b.s = -1 THEN -1 ELSE 1)

FSub(a, b) == FAdd(a, FNeg(b))

FMul(a, b) ==
    IF IsNaN(a) \/ IsNaN(b) THEN NaN
    ELSE IF (a.k = "inf" /\ IsZero(b)) \/ (b.k = "inf" /\ IsZero(a)) THEN NaN
    ELSE IF a.k = "inf" \/ b.k = "inf" THEN Inf(a.s * b.s)
    ELSE Num(SN(a) * SN(b), a.d * b.d, a.s * b.s)

FDiv(a, b) ==
    IF IsNaN(a) \/ IsNaN(b) THEN NaN
    ELSE IF a.k = "inf" /\ b.k = "inf" THEN NaN
    ELSE IF a.k = "inf" THEN Inf(a.s * b.s)
    ELSE IF b.k = "inf" THEN Zero(a.s * b.s)
    ELSE IF IsZero(b) THEN (IF IsZero(a) THEN NaN ELSE Inf(a.s * b.s))
    ELSE Num(a.s * b.s * a.n * b.d, a.d * b.n, a.s * b.s)

\* a < b on floats (false when either is NaN)
FLess(a, b) ==
    IF IsNaN(a) \/ IsNaN(b) THEN FALSE
    ELSE IF a.k = "inf" THEN a.s = -1 /\ ~(b.k = "inf" /\ b.s = -1)
    ELSE IF b.k = "inf" THEN b.s = 1
    ELSE SN(a) * b.d < SN(b) * a.d

(***************************************************************************)
(* Series operations of pandas used by the script.                         *)
(***************************************************************************)
\* Series.diff(): NaN at the first position, x[i] - x[i-1] after it
diff(x) == [i \in 1..Len(x) |-> IF i = 1 THEN NaN ELSE FSub(x[i], x[i - 1])]

\* Series.clip(lower=0)
clip_lower(x) == [i \in 1..Len(x) |->
                    IF FLess(x[i], F(0)) THEN F(0) ELSE x[i]]

\* Series.clip(upper=0)
clip_upper(x) == [i \in 1..Len(x) |->
                    IF FLess(F(0), x[i]) THEN F(0) ELSE x[i]]

\* unary minus on a Series
neg(x) == [i \in 1..Len(x) |-> FNeg(x[i])]

(***************************************************************************)
(* Series.rolling(window).mean(): pandas' sliding add/remove pass.  acc is *)
(* the output so far, sum_x and nobs the running sum and count of the      *)
(* non-NaN observations in the window; min_periods defaults to window.     *)
(***************************************************************************)
\* one iteration of the pass, at position i
roll_step(x, window, i, st) ==
    LET add  == ~IsNaN(x[i])
        rem  == i > window /\ ~IsNaN(x[i - window])
        s1   == IF add THEN FAdd(st.sum_x, x[i]) ELSE st.sum_x
        s2   == IF rem THEN FSub(s1, x[i - window]) ELSE s1
        n2   == st.nobs + (IF add THEN 1 ELSE 0) - (IF rem THEN 1 ELSE 0)
        out  == IF n2 >= window /\ n2 > 0 THEN FDiv(s2, F(n2)) ELSE NaN
    IN  [sum_x |-> s2, nobs |-> n2, acc |-> Append(st.acc, out)]

\* the iterations lo..hi in order, from state st (split in halves only to
\* keep the depth of the evaluation logarithmic in the length)
RECURSIVE roll_pass(_, _, _, _, _)
roll_pass(x, window, lo, hi, st) ==
    IF lo > hi THEN st
    ELSE IF lo = hi THEN roll_step(x, window, lo, st)
    ELSE LET mid   == (lo + hi) \div 2
             first == roll_pass(x, window, lo, mid, st)
         IN  IF Len(first.acc) = mid    \* the first half is done before the second
             THEN roll_pass(x, window, mid + 1, hi, first)
             ELSE first

\* a window one position too long
rolling_mean_window_plus_one(x, window) ==
    roll_pass(x, window + 1, 1, Len(x), [sum_x |-> F(0), nobs |-> 0, acc |-> <<>>]).acc

rolling_mean(x, window) ==
    roll_pass(x, window, 1, Len(x), [sum_x |-> F(0), nobs |-> 0, acc |-> <<>>]).acc

(***************************************************************************)
(* Series.ewm(span, adjust=False).mean(): y[0] = x[0],                     *)
(* y[i] = (1 - alpha) * y[i-1] + alpha * x[i], alpha = 2 / (span + 1).     *)
(***************************************************************************)
RECURSIVE ewm(_, _, _, _)
ewm(x, alpha, i, acc) ==
    IF i > Len(x) THEN acc
    ELSE LET y == IF i = 1 THEN x[1]
                  ELSE FAdd(FMul(FSub(F(1), alpha), acc[i - 1]),
                            FMul(alpha, x[i]))
         IN  ewm(x, alpha, i + 1, Append(acc, y))

\* alpha = 2 / span instead of 2 / (span + 1)
ewm_mean_alpha_span(x, span) == ewm(x, Num(2, span, 1), 1, <<>>)

ewm_mean(x, span) == ewm(x, Num(2, span + 1, 1), 1, <<>>)

\* program constants of the indicator calculation
SMA_SHORT == 50

SMA_LONG == 200

RSI_PERIOD == 14

EMA_FAST == 12

EMA_SLOW == 26

\* an undefined rs coerced to 0 (rs.fillna(0))
compute_rsi_fillna(x) ==
    LET delta == diff(x)
        gain  == rolling_mean(clip_lower(delta), RSI_PERIOD)
        loss  == neg(rolling_mean(clip_upper(delta), RSI_PERIOD))
        rs    == [i \in 1..Len(x) |->
                    LET q == FDiv(gain[i], loss[i]) IN IF IsNaN(q) THEN F(0) ELSE q]
    IN  [i \in 1..Len(x) |->
            FSub(F(100), FDiv(F(100), FAdd(F(1), rs[i])))]

\* compute_rsi(series, period=14)
compute_rsi(x) ==
    LET delta == diff(x)
        gain  == rolling_mean(clip_lower(delta), RSI_PERIOD)
        loss  == neg(rolling_mean(clip_upper(delta), RSI_PERIOD))
        rs    == [i \in 1..Len(x) |-> FDiv(gain[i], loss[i])]
    IN  [i \in 1..Len(x) |->
            FSub(F(100), FDiv(F(100), FAdd(F(1), rs[i])))]

sma_50(x) == rolling_mean(x, SMA_SHORT)

sma_200(x) == rolling_mean(x, SMA_LONG)

ema_12(x) == ewm_mean(x, EMA_FAST)

ema_26(x) == ewm_mean(x, EMA_SLOW)

macd(x) == LET e12 == ema_12(x)
               e26 == ema_26(x)
           IN  [i \in 1..Len(x) |-> FSub(e12[i], e26[i])]

(***************************************************************************)
(* The indicator transforms on their own: the input is one symbol's Close  *)
(* column (a partition of the sorted table), the actions apply the         *)
(* transforms of lines 109-114 to it.                                      *)
(***************************************************************************)
NoFile == [columns |-> {}, rows |-> <<>>, present |-> FALSE]

NoFrame == [columns |-> {}, rows |-> <<>>]

NoResult == [fn |-> "none", out |-> <<>>]

None == [kind |-> "none", data |-> <<>>]

NothingRendered == [load |-> "none", tab1 |-> None, tab2 |-> None, tab3 |-> None,
                    tab4 |-> None, raw_data |-> None]

\* the run's variables while only a transform is exercised
RunIdle ==
    /\ pc = "transform"
    /\ uploaded_file = NoFile
    /\ default_exists = FALSE
    /\ source = "none"
    /\ raw = NoFrame
    /\ df = NoFrame
    /\ selected_symbols = {}
    /\ date_range = <<>>
    /\ filtered_df = <<>>
    /\ output = NothingRendered

Apply(fn, out) ==
    /\ pc = "transform"
    /\ result.fn = "none"
    /\ result' = [fn |-> fn, out |-> out]
    /\ UNCHANGED <<runVars, series>>

\* bounds of the Close series tried for the moving averages
MaxSmaLen == 201

MaxSmaClose == 1

MaxSmaPeriod == 3

\* a sawtooth of closes: lo, lo+1, ..., lo+period-1, lo, ...
Sawtooth(len, lo, period) == [i \in 1..len |-> F(lo + ((i - 1) % period))]

SmaInputs == {Sawtooth(len, lo, period) :
                len \in 0..MaxSmaLen, lo \in 1..MaxSmaClose, period \in 1..MaxSmaPeriod}

InitSMA == RunIdle /\ series \in SmaInputs /\ result = NoResult

ApplySMA50 == Apply("SMA_50", sma_50(series))

ApplySMA200 == Apply("SMA_200", sma_200(series))

NextSMA == ApplySMA50 \/ ApplySMA200

SpecSMA == InitSMA /\ [][NextSMA]_vars

\* bounds of the Close series tried for the MACD
MaxEmaLen == 3

MaxEmaClose == 3

EmaInputs == UNION {[1..len -> {F(c) : c \in 1..MaxEmaClose}] : len \in 0..MaxEmaLen}

InitMACD == RunIdle /\ series \in EmaInputs /\ result = NoResult

ApplyEMA12 == Apply("EMA_12", ema_12(series))

ApplyEMA26 == Apply("EMA_26", ema_26(series))

ApplyMACD == Apply("MACD", macd(series))

NextMACD == ApplyEMA12 \/ ApplyEMA26 \/ ApplyMACD

SpecMACD == InitMACD /\ [][NextMACD]_vars

\* bounds of the Close series tried for the RSI: piecewise constant closes
\* with at most three levels, so that a window holds no change, only rises,
\* only falls, or both
MaxRsiLen == 16

MaxRsiClose == 2

Steps(len, b1, b2, v1, v2, v3) ==
    [i \in 1..len |-> F(IF i <= b1 THEN v1 ELSE IF i <= b2 THEN v2 ELSE v3)]

RsiInputs == {Steps(len, b1, b2, v1, v2, v3) :
                len \in 0..MaxRsiLen, b1 \in 0..MaxRsiLen, b2 \in 0..MaxRsiLen,
                v1 \in 1..MaxRsiClose, v2 \in 1..MaxRsiClose, v3 \in 1..MaxRsiClose}

InitRSI == RunIdle /\ series \in RsiInputs /\ result = NoResult

ApplyRSI == Apply("RSI", compute_rsi(series))

NextRSI == ApplyRSI

SpecRSI == InitRSI /\ [][NextRSI]_vars

(***************************************************************************)
(* Tables.  A table is its set of column names and its rows in order; a    *)
(* row maps each column to a cell.  Symbol and Category cells are strings, *)
(* Date cells are the file's text before pd.to_datetime and day numbers    *)
(* after it, all other cells are floats, NaN when the value is missing.    *)
(***************************************************************************)
RequiredCols == {"Symbol", "Date", "Open", "High", "Low", "Close"}

OptionalCols == {"Category", "Volatility", "Daily_Return"}

IndicatorCols == {"SMA_50", "SMA_200", "RSI", "MACD"}

TextCols == {"Symbol", "Date", "Category"}

\* the symbols, in the order sort_values puts them
Symbols == <<"AAA", "BBB">>

\* the dates of the files, as written, in calendar order
Calendar == <<"2024-01-01", "2024-01-02">>

CloseCells == {F(1), F(2), NaN}

VolatilityCells == {F(1), NaN}

\* the largest number of rows of an uploaded file
MaxRows == 2

Range(f) == {f[i] : i \in DOMAIN f}

MkRow(cols, sym, date, close, vol) ==
    [c \in cols |->
        CASE c = "Symbol"     -> sym
          [] c = "Date"       -> date
          [] c = "Close"      -> close
          [] c = "Volatility" -> vol
          [] c = "Category"   -> "Sector"
          [] c = "Daily_Return" -> F(0)
          [] OTHER            -> F(1)]

RowPool(cols) ==
    {MkRow(cols, sym, date, close, vol) :
        sym \in Range(Symbols), date \in Range(Calendar), close \in CloseCells,
        vol \in IF "Volatility" \in cols THEN VolatilityCells ELSE {NaN}}

ColumnSets == {RequiredCols \cup opt : opt \in SUBSET OptionalCols}

\* the uploaded file has the columns cols and the rows `rows`
IsFile(file, cols, rows) == file = [columns |-> cols, rows |-> rows, present |-> TRUE]

\* Nifty_Stocks.csv of the local folder, when it exists
DefaultFile ==
    LET cols == RequiredCols \cup OptionalCols
    IN  [columns |-> cols,
         rows |-> <<MkRow(cols, "AAA", "2024-01-01", F(1), NaN),
                    MkRow(cols, "AAA", "2024-01-02", F(2), F(1)),
                    MkRow(cols, "BBB", "2024-01-01", F(2), F(1))>>,
         present |-> TRUE]

IsMissing(c, cell) == c \notin TextCols /\ IsNaN(cell)

(***************************************************************************)
(* Preprocessing, lines 103-106.                                           *)
(***************************************************************************)
\* df.fillna(method='ffill'): down the rows in file order, each column keeps
\* its last valid cell in `last` and a missing cell takes it
RECURSIVE ffill_pass(_, _, _, _, _)
ffill_pass(rows, cols, i, last, acc) ==
    IF i > Len(rows) THEN acc
    ELSE LET filled == [c \in cols |->
                          IF IsMissing(c, rows[i][c]) THEN last[c] ELSE rows[i][c]]
         IN  ffill_pass(rows, cols, i + 1, filled, Append(acc, filled))

ffill(rows, cols) == ffill_pass(rows, cols, 1, [c \in cols |-> NaN], <<>>)

\* df.dropna(how='all'): only a row missing in every column goes
dropna_how_all(rows, cols) ==
    LET some_value(r) == \E c \in cols : ~IsMissing(c, r[c])
    IN  SelectSeq(rows, some_value)

\* df.dropna(): how='any', a row with a missing cell in any column goes
dropna(rows, cols) ==
    LET complete(r) == \A c \in cols : ~IsMissing(c, r[c])
    IN  SelectSeq(rows, complete)

\* pd.to_datetime on one cell: the text of a date to its day number
to_datetime(text) == CHOOSE d \in 1..Len(Calendar) : Calendar[d] = text

parse_dates(rows) == [i \in 1..Len(rows) |-> [rows[i] EXCEPT !["Date"] = to_datetime(@)]]

SymbolRank(sym) == CHOOSE k \in 1..Len(Symbols) : Symbols[k] = sym

\* row a sorts strictly before row b by ['Symbol', 'Date']
KeyLess(a, b) ==
    \/ SymbolRank(a["Symbol"]) < SymbolRank(b["Symbol"])
    \/ a["Symbol"] = b["Symbol"] /\ a["Date"] < b["Date"]

\* r put into the sorted sequence after every row that does not sort after it
RECURSIVE insert_sorted(_, _)
insert_sorted(sorted, r) ==
    IF sorted = <<>> THEN <<r>>
    ELSE IF KeyLess(r, Head(sorted)) THEN <<r>> \o sorted
    ELSE <<Head(sorted)>> \o insert_sorted(Tail(sorted), r)

\* df.sort_values(by=['Symbol', 'Date']): with two keys pandas sorts by
\* lexsort, which keeps rows of equal keys in their order
RECURSIVE sort_values(_)
sort_values(rows) ==
    IF rows = <<>> THEN <<>>
    ELSE insert_sorted(sort_values(SubSeq(rows, 1, Len(rows) - 1)), rows[Len(rows)])

preprocess(frame) ==
    [columns |-> frame.columns,
     rows |-> sort_values(parse_dates(dropna(ffill(frame.rows, frame.columns),
                                             frame.columns)))]

(***************************************************************************)
(* Calculate indicators, lines 109-114.                                    *)
(***************************************************************************)
\* the positions of the rows of symbol sym, in order
RECURSIVE group_positions(_, _, _)
group_positions(rows, sym, i) ==
    IF i > Len(rows) THEN <<>>
    ELSE (IF rows[i]["Symbol"] = sym THEN <<i>> ELSE <<>>)
         \o group_positions(rows, sym, i + 1)

\* df.groupby('Symbol')['Close']: the Close column of the rows of symbol sym
group_close(rows, sym) ==
    LET g == group_positions(rows, sym, 1)
    IN  [k \in 1..Len(g) |-> rows[g[k]]["Close"]]

\* the place of row i among the rows of its symbol, where .transform puts
\* back the value calculated for it
place_in_group(rows, i) ==
    LET g == group_positions(rows, rows[i]["Symbol"], 1)
    IN  CHOOSE k \in 1..Len(g) : g[k] = i

calculate_indicators(frame) ==
    LET rows == frame.rows
        cols == frame.columns \cup IndicatorCols
        close(i) == group_close(rows, rows[i]["Symbol"])
        at(i) == place_in_group(rows, i)
    IN  [columns |-> cols,
         rows |-> [i \in 1..Len(rows) |->
                     [c \in cols |->
                        CASE c = "SMA_50"  -> sma_50(close(i))[at(i)]
                          [] c = "SMA_200" -> sma_200(close(i))[at(i)]
                          [] c = "RSI"     -> compute_rsi(close(i))[at(i)]
                          [] c = "MACD"    -> FSub(ema_12(close(i))[at(i)],
                                                   ema_26(close(i))[at(i)])
                          [] OTHER         -> rows[i][c]]]]

(***************************************************************************)
(* Sidebar controls and the filter, lines 117-128.                         *)
(***************************************************************************)
unique_symbols(frame) == {frame.rows[i]["Symbol"] : i \in 1..Len(frame.rows)}

dates_of(frame) == {frame.rows[i]["Date"] : i \in 1..Len(frame.rows)}

min_date(frame) == CHOOSE d \in dates_of(frame) : \A e \in dates_of(frame) : d <= e

max_date(frame) == CHOOSE d \in dates_of(frame) : \A e \in dates_of(frame) : e <= d

\* df[(df['Symbol'].isin(symbols)) & (df['Date'] >= start) & (df['Date'] <= end)]:
\* the selected rows in table order, each with its index label
RECURSIVE filter_rows(_, _, _, _, _)
filter_rows(rows, symbols, start_date, end_date, i) ==
    IF i > Len(rows) THEN <<>>
    ELSE (IF /\ rows[i]["Symbol"] \in symbols
             /\ rows[i]["Date"] >= start_date
             /\ rows[i]["Date"] <= end_date
          THEN <<[index |-> i - 1, row |-> rows[i]]>>
          ELSE <<>>)
         \o filter_rows(rows, symbols, start_date, end_date, i + 1)

\* the end of the range excluded: df['Date'] < end
filter_end_exclusive(frame, symbols, start_date, end_date) ==
    filter_rows(frame.rows, symbols, start_date, end_date - 1, 1)

\* the indicators calculated again over the selected rows only
filter_then_recalculate(frame, symbols, start_date, end_date) ==
    LET view == filter_rows(frame.rows, symbols, start_date, end_date, 1)
        again == calculate_indicators(
                    [columns |-> frame.columns,
                     rows |-> [k \in 1..Len(view) |-> view[k].row]])
    IN  [k \in 1..Len(view) |-> [index |-> view[k].index, row |-> again.rows[k]]]

filter(frame, symbols, start_date, end_date) ==
    filter_rows(frame.rows, symbols, start_date, end_date, 1)

(***************************************************************************)
(* The tabs and the raw-data expander, lines 131-179.                      *)
(***************************************************************************)
\* filtered_df[filtered_df['Symbol'] == symbol]
stock_data(view, symbol) ==
    LET of_symbol(e) == e.row["Symbol"] = symbol
    IN  SelectSeq(view, of_symbol)

\* the columns a chart plots, row by row
plotted(data, cols) == [i \in 1..Len(data) |-> [c \in cols |-> data[i].row[c]]]

plot_price_chart(data) == plotted(data, {"Date", "Close", "SMA_50", "SMA_200"})

plot_rsi_chart(data) == plotted(data, {"Date", "RSI"})

plot_macd_chart(data) == plotted(data, {"Date", "MACD"})

render_tab1(view, symbols) ==
    [kind |-> "charts",
     data |-> [sym \in symbols |->
                 LET data == stock_data(view, sym)
                 IN  [price |-> plot_price_chart(data),
                      rsi   |-> plot_rsi_chart(data),
                      macd  |-> plot_macd_chart(data)]]]

Info == [kind |-> "info", data |-> <<>>]

render_tab2(frame) ==
    IF "Category" \in frame.columns /\ "Volatility" \in frame.columns
    THEN [kind |-> "boxplot",
          data |-> [i \in 1..Len(frame.rows) |->
                      <<frame.rows[i]["Category"], frame.rows[i]["Volatility"]>>]]
    ELSE Info

corr_cols == <<"Open", "High", "Low", "Close", "SMA_50", "SMA_200", "RSI", "MACD",
               "Volatility">>

\* the indicator columns left out of the heatmap
available_cols_no_indicators(frame) ==
    LET present(c) == c \in frame.columns /\ c \notin IndicatorCols
    IN  SelectSeq(corr_cols, present)

available_cols(frame) ==
    LET present(c) == c \in frame.columns
    IN  SelectSeq(corr_cols, present)

\* the heatmap is recorded by the columns df[available_cols].corr() is over
render_tab3(frame) ==
    IF available_cols(frame) # <<>>
    THEN [kind |-> "heatmap", data |-> available_cols(frame)]
    ELSE Info

render_tab4(frame) ==
    IF "Daily_Return" \in frame.columns
    THEN [kind |-> "histogram",
          data |-> [i \in 1..Len(frame.rows) |-> frame.rows[i]["Daily_Return"]]]
    ELSE Info

render_raw_data(view) == [kind |-> "dataframe", data |-> view]

(***************************************************************************)
(* One run of the script.                                                  *)
(***************************************************************************)
\* the local file tried before the upload
read_source_default_first(uploaded, exists) ==
    IF exists THEN "default"
    ELSE IF uploaded.present THEN "upload"
    ELSE "none"

\* lines 93-100: which branch of the data loading is taken
read_source(uploaded, exists) ==
    IF uploaded.present THEN "upload"
    ELSE IF exists THEN "default"
    ELSE "none"

Init ==
    /\ pc = "load"
    /\ \/ uploaded_file = NoFile
       \/ \E cols \in ColumnSets : \E n \in 0..MaxRows :
             \E rows \in [1..n -> RowPool(cols)] : IsFile(uploaded_file, cols, rows)
    /\ default_exists \in BOOLEAN
    /\ source = "none"
    /\ raw = NoFrame
    /\ df = NoFrame
    /\ selected_symbols = {}
    /\ date_range = <<>>
    /\ filtered_df = <<>>
    /\ output = NothingRendered
    /\ series = <<>>
    /\ result = NoResult

\* lines 93-94: df = pd.read_csv(uploaded_file)
LoadUploaded ==
    /\ pc = "load"
    /\ read_source(uploaded_file, default_exists) = "upload"
    /\ source' = "upload"
    /\ raw' = [columns |-> uploaded_file.columns, rows |-> uploaded_file.rows]
    /\ df' = raw'
    /\ pc' = "preprocess"
    /\ UNCHANGED <<uploaded_file, default_exists, selected_symbols, date_range,
                   filtered_df, output, series, result>>

\* lines 95-97: df = pd.read_csv('Nifty_Stocks.csv'); st.info(...)
LoadDefault ==
    /\ pc = "load"
    /\ read_source(uploaded_file, default_exists) = "default"
    /\ source' = "default"
    /\ raw' = [columns |-> DefaultFile.columns, rows |-> DefaultFile.rows]
    /\ df' = raw'
    /\ output' = [output EXCEPT !.load = "info"]
    /\ pc' = "preprocess"
    /\ UNCHANGED <<uploaded_file, default_exists, selected_symbols, date_range,
                   filtered_df, series, result>>

\* lines 98-100: st.warning(...); st.stop()
MissingInput ==
    /\ pc = "load"
    /\ read_source(uploaded_file, default_exists) = "none"
    /\ output' = [output EXCEPT !.load = "warning"]
    /\ pc' = "stopped"
    /\ UNCHANGED <<uploaded_file, default_exists, source, raw, df, selected_symbols,
                   date_range, filtered_df, series, result>>

\* lines 103-106
Preprocessing ==
    /\ pc = "preprocess"
    /\ df' = preprocess(df)
    /\ pc' = "indicators"
    /\ UNCHANGED <<uploaded_file, default_exists, source, raw, selected_symbols,
                   date_range, filtered_df, output, series, result>>

\* lines 109-114
CalculateIndicators ==
    /\ pc = "indicators"
    /\ df' = calculate_indicators(df)
    /\ pc' = "sidebar"
    /\ UNCHANGED <<uploaded_file, default_exists, source, raw, selected_symbols,
                   date_range, filtered_df, output, series, result>>

\* line 118 on a table without rows: df['Symbol'].unique()[0] raises IndexError
SidebarFails ==
    /\ pc = "sidebar"
    /\ df.rows = <<>>
    /\ pc' = "error"
    /\ UNCHANGED <<uploaded_file, default_exists, source, raw, df, selected_symbols,
                   date_range, filtered_df, output, series, result>>

\* lines 117-128: the widgets' values (any of the offered symbols, a range of
\* days within [min_date, max_date]) and the filter
SidebarControls ==
    /\ pc = "sidebar"
    /\ df.rows # <<>>
    /\ \E symbols \in SUBSET unique_symbols(df) :
       \E start_date \in min_date(df)..max_date(df) :
       \E end_date \in start_date..max_date(df) :
          /\ selected_symbols' = symbols
          /\ date_range' = <<start_date, end_date>>
          /\ filtered_df' = filter(df, symbols, start_date, end_date)
    /\ pc' = "tab1"
    /\ UNCHANGED <<uploaded_file, default_exists, source, raw, df, output, series,
                   result>>

Render(at, place, view, next) ==
    /\ pc = at
    /\ output' = [output EXCEPT ![place] = view]
    /\ pc' = next
    /\ UNCHANGED <<uploaded_file, default_exists, source, raw, df, selected_symbols,
                   date_range, filtered_df, series, result>>

\* lines 133-142
Tab1 == Render("tab1", "tab1", render_tab1(filtered_df, selected_symbols), "tab2")

\* lines 144-152
Tab2 == Render("tab2", "tab2", render_tab2(df), "tab3")

\* lines 154-165
Tab3 == Render("tab3", "tab3", render_tab3(df), "tab4")

\* lines 167-175
Tab4 == Render("tab4", "tab4", render_tab4(df), "raw_data")

\* lines 178-179
ViewRawData == Render("raw_data", "raw_data", render_raw_data(filtered_df), "done")

Next ==
    \/ LoadUploaded
    \/ LoadDefault
    \/ MissingInput
    \/ Preprocessing
    \/ CalculateIndicators
    \/ SidebarFails
    \/ SidebarControls
    \/ Tab1
    \/ Tab2
    \/ Tab3
    \/ Tab4
    \/ ViewRawData

Spec == Init /\ [][Next]_vars

(***************************************************************************)
(* Reference definitions the claims are stated with: sums taken directly   *)
(* over a window, the closed form of the exponential mean.                 *)
(***************************************************************************)
RECURSIVE FSum(_, _, _)
FSum(x, lo, hi) ==
    IF lo > hi THEN F(0)
    ELSE IF lo = hi THEN x[lo]
    ELSE LET mid == (lo + hi) \div 2
         IN  FAdd(FSum(x, lo, mid), FSum(x, mid + 1, hi))

\* the unweighted mean of x[i-w+1 .. i]
WindowMean(x, w, i) == FDiv(FSum(x, i - w + 1, i), F(w))

RECURSIVE Pow(_, _)
Pow(b, e) == IF e = 0 THEN 1 ELSE b * Pow(b, e - 1)

RECURSIVE IntSum(_, _, _)
IntSum(f, lo, hi) == IF lo > hi THEN 0 ELSE f[lo] + IntSum(f, lo + 1, hi)

\* ema[i] for alpha = a/b over integer closes, unrolled:
\* ((b-a)^(i-1) c[1] + sum_{j=2..i} a (b-a)^(i-j) b^(j-2) c[j]) / b^(i-1)
ClosedEma(x, a, b, i) ==
    LET term == [j \in 1..i |->
                    IF j = 1 THEN Pow(b - a, i - 1) * SN(x[1])
                    ELSE a * Pow(b - a, i - j) * Pow(b, j - 2) * SN(x[j])]
    IN  Num(IntSum(term, 1, i), Pow(b, i - 1), 1)

\* sum over the deltas d[j] = x[j] - x[j-1], j in lo..hi, of max(d, 0) (up) or
\* max(-d, 0) (down), for integer closes
Gains(x, lo, hi) ==
    IntSum([j \in lo..hi |-> IF SN(x[j]) > SN(x[j - 1]) THEN SN(x[j]) - SN(x[j - 1]) ELSE 0],
           lo, hi)

Losses(x, lo, hi) ==
    IntSum([j \in lo..hi |-> IF SN(x[j]) < SN(x[j - 1]) THEN SN(x[j - 1]) - SN(x[j]) ELSE 0],
           lo, hi)

SmaWindow(fn) == IF fn = "SMA_50" THEN SMA_SHORT ELSE SMA_LONG

(* C2: for W in {50, 200} and a partition's Close series, sma_W is undefined
   at every (0-based) index below W-1 and is the unweighted mean of the
   trailing W closes from index W-1 on; a partition shorter than W is
   undefined at every row and the transform returns a value for every row. *)
C2_SmaIsWindowMean ==
    result.fn \in {"SMA_50", "SMA_200"} =>
        LET w == SmaWindow(result.fn) IN
        /\ Len(result.out) = Len(series)
        /\ \A i \in 1..Len(series) :
              IF i < w THEN IsNaN(result.out[i])
              ELSE result.out[i] = WindowMean(series, w, i)

C2_Witness ==
    /\ result.fn = "SMA_200"
    /\ Len(series) > SMA_LONG
    /\ IsNaN(result.out[SMA_LONG - 1])
    /\ ~IsNaN(result.out[SMA_LONG + 1])
    /\ result.out[SMA_LONG + 1] # result.out[SMA_LONG]

(* C3: MACD is defined at every index, macd[0] = 0 and macd[i] = ema12[i] -
   ema26[i], each ema seeded with close[0] and following
   ema[i] = a*close[i] + (1-a)*ema[i-1], a = 2/13 resp. 2/27. *)
C3_MacdIsEmaDifference ==
    /\ result.fn = "EMA_12" =>
          \A i \in 1..Len(series) : result.out[i] = ClosedEma(series, 2, 13, i)
    /\ result.fn = "EMA_26" =>
          \A i \in 1..Len(series) : result.out[i] = ClosedEma(series, 2, 27, i)
    /\ result.fn = "MACD" =>
          /\ Len(result.out) = Len(series)
          /\ Len(series) >= 1 => result.out[1] = F(0)
          /\ \A i \in 1..Len(series) :
                /\ ~IsNaN(result.out[i])
                /\ result.out[i] = FSub(ClosedEma(series, 2, 13, i),
                                        ClosedEma(series, 2, 27, i))

C3_Witness ==
    /\ result.fn = "MACD"
    /\ series = <<F(1), F(2), F(1)>>
    /\ result.out[1] = F(0)
    /\ result.out[2] = Num(28, 351, 1)    \* 2/13 - 2/27

(* C4: RSI is undefined at every index below 14; where 14 trailing deltas
   exist and avg_loss is zero, RSI is undefined when avg_gain is zero too
   and is undefined or exactly 100 when avg_gain > 0; every defined RSI lies
   in [0, 100] and a value is returned for every row. *)
C4_RsiZeroLoss ==
    result.fn = "RSI" =>
        /\ Len(result.out) = Len(series)
        /\ \A i \in 1..Len(series) :
              LET r == result.out[i] IN
              /\ IsNaN(r) \/ (r.k = "num" /\ ~FLess(r, F(0)) /\ ~FLess(F(100), r))
              /\ i <= RSI_PERIOD => IsNaN(r)
              /\ i > RSI_PERIOD /\ Losses(series, i - RSI_PERIOD + 1, i) = 0 =>
                    IF Gains(series, i - RSI_PERIOD + 1, i) = 0
                    THEN IsNaN(r)
                    ELSE IsNaN(r) \/ r = F(100)

C4_Witness ==
    /\ result.fn = "RSI"
    /\ Len(series) = RSI_PERIOD + 2
    /\ \A i \in 1..(RSI_PERIOD + 1) : series[i] = F(1)
    /\ series[RSI_PERIOD + 2] = F(2)
    /\ IsNaN(result.out[RSI_PERIOD + 1])
    /\ result.out[RSI_PERIOD + 2] = F(100)

(***************************************************************************)
(* The run: positions and reference definitions of its claims.             *)
(***************************************************************************)
AfterFilter == {"tab1", "tab2", "tab3", "tab4", "raw_data", "done"}

AfterIndicators == AfterFilter \cup {"sidebar", "error"}

AfterPreprocessing == AfterIndicators \cup {"indicators"}

Project(row, cols) == [c \in cols |-> row[c]]

TableOf(file) == [columns |-> file.columns, rows |-> file.rows]

\* the whole pipeline of lines 103-114 on a table as read
Pipeline(frame) == calculate_indicators(preprocess(frame))

\* the rows of a symbol, in table order, with their dates and indicators
IndicatorsOf(frame, sym) ==
    LET of_symbol(r) == r["Symbol"] = sym
        sel == SelectSeq(frame.rows, of_symbol)
    IN  [k \in 1..Len(sel) |-> Project(sel[k], IndicatorCols \cup {"Date"})]

InsertAfter(rows, k, r) == SubSeq(rows, 1, k) \o <<r>> \o SubSeq(rows, k + 1, Len(rows))

(* C1: the indicator values the full pipeline produces for a symbol's rows
   depend only on the input rows of that symbol: a row of another symbol
   inserted between two of its rows in the file leaves them unchanged. *)
C1_SymbolIsolation ==
    pc \in AfterIndicators =>
        \A sym \in Range(Symbols) :
        \A k \in 1..(Len(raw.rows) - 1) :
            (/\ \E a \in 1..k : raw.rows[a]["Symbol"] = sym
             /\ \E b \in (k + 1)..Len(raw.rows) : raw.rows[b]["Symbol"] = sym)
            => \A r \in RowPool(raw.columns) :
                  r["Symbol"] # sym =>
                      IndicatorsOf(Pipeline([columns |-> raw.columns,
                                             rows |-> InsertAfter(raw.rows, k, r)]), sym)
                      = IndicatorsOf(df, sym)

\* the positions of the table's rows the selection keeps
Selected(frame, symbols, range) ==
    {i \in 1..Len(frame.rows) :
        /\ frame.rows[i]["Symbol"] \in symbols
        /\ range[1] <= frame.rows[i]["Date"]
        /\ frame.rows[i]["Date"] <= range[2]}

(* C5: the filtered view holds exactly the rows of the indicator table whose
   symbol is selected and whose date lies in [date_from, date_to], both ends
   included, in table order; with no symbol selected or no row matching, the
   view has zero rows and the run goes on to the end of rendering. *)
C5_FilterExact ==
    pc \in AfterFilter =>
        LET keep == Selected(df, selected_symbols, date_range) IN
        /\ Len(filtered_df) = Cardinality(keep)
        /\ \A k \in 1..Len(filtered_df) :
              /\ filtered_df[k].index + 1 \in keep
              /\ filtered_df[k].row = df.rows[filtered_df[k].index + 1]
              /\ k > 1 => filtered_df[k - 1].index < filtered_df[k].index
        /\ (selected_symbols = {} \/ keep = {}) => filtered_df = <<>>
        /\ pc # "done" => ENABLED Next
        /\ pc = "done" => /\ output.raw_data = [kind |-> "dataframe", data |-> filtered_df]
                          /\ output.tab1.kind = "charts"
                          /\ DOMAIN output.tab1.data = selected_symbols

C5_Witness ==
    /\ pc = "done"
    /\ selected_symbols # {}
    /\ \E i \in 1..Len(df.rows) : df.rows[i]["Symbol"] \in selected_symbols
    /\ filtered_df = <<>>
    /\ output.raw_data = [kind |-> "dataframe", data |-> <<>>]

(* C6: with no file uploaded and no Nifty_Stocks.csv the run shows the
   warning and halts, and no later step (preprocessing, indicators, filter,
   tabs) is executed; whenever preprocessing has run, a table was loaded
   first, from the uploaded file if there is one and else from the default
   file. *)
C6_MissingInputHalts ==
    /\ (~uploaded_file.present /\ ~default_exists) =>
          /\ pc \in {"load", "stopped"}
          /\ pc = "stopped" => output.load = "warning"
          /\ df = NoFrame /\ raw = NoFrame /\ filtered_df = <<>>
          /\ \A place \in {"tab1", "tab2", "tab3", "tab4", "raw_data"} :
                output[place] = None
    /\ pc \in AfterPreprocessing =>
          IF uploaded_file.present
          THEN source = "upload" /\ raw = TableOf(uploaded_file)
          ELSE source = "default" /\ default_exists /\ raw = TableOf(DefaultFile)

C6_Witness ==
    /\ pc = "stopped"
    /\ ~uploaded_file.present /\ ~default_exists
    /\ output.load = "warning"

\* the tables that are `frame` with its absent optional columns present
WithOptionalColumns(frame) ==
    LET cols == RequiredCols \cup OptionalCols
        n    == Len(frame.rows)
    IN  {[columns |-> cols,
          rows |-> [i \in 1..n |->
                      [c \in cols |->
                         IF c \in frame.columns THEN frame.rows[i][c]
                         ELSE CASE c = "Volatility" -> vols[i]
                                [] c = "Category"   -> "Sector"
                                [] OTHER            -> F(0)]]] :
         vols \in [1..n -> VolatilityCells]}

\* the stock-charts view and the raw-data view (on the columns cols) of a run
\* on the table `frame` with the widgets' values of this run
ViewsOf(frame, cols) ==
    LET view == filter(Pipeline(frame), selected_symbols, date_range[1], date_range[2])
    IN  [tab1 |-> render_tab1(view, selected_symbols),
         raw_data |-> [k \in 1..Len(view) |->
                         [index |-> view[k].index, row |-> Project(view[k].row, cols)]]]

\* what C7 says of the optional views and of a failure
OptionalViews ==
    /\ pc = "error" => df.rows = <<>>
    /\ pc \in {"tab2", "tab3", "tab4"} => ENABLED Next
    /\ pc = "done" =>
          /\ output.tab2 = Info <=> ~({"Category", "Volatility"} \subseteq raw.columns)
          /\ output.tab4 = Info <=> "Daily_Return" \notin raw.columns
          /\ output.tab3.kind = "heatmap"
          /\ output.tab3.data =
                LET present(c) == c \in raw.columns \cup IndicatorCols
                IN  SelectSeq(corr_cols, present)

\* an optional column of `full` that is absent from the run's file and whose
\* first cell is missing
AbsentColumnStartsMissing(full) ==
    /\ full.rows # <<>>
    /\ \E c \in OptionalCols \ raw.columns : IsMissing(c, full.rows[1][c])

(* C7 as claimed: whatever optional columns are absent, the run does not
   fail, the volatility view is the notice iff Category or Volatility is
   absent, the daily-return view is the notice iff Daily_Return is absent,
   the correlation view is over exactly the present ones of the nine columns,
   and the stock-charts and raw-data views are the same as when the optional
   columns are present. *)
C7_OptionalColumnsOriginal ==
    /\ OptionalViews
    /\ pc = "done" =>
          \A full \in WithOptionalColumns(raw) :
              ViewsOf(full, df.columns) = [tab1 |-> output.tab1,
                                           raw_data |-> output.raw_data.data]

(* C7 as amended: as above, the stock-charts and raw-data views being the
   same as when the optional columns are present provided no absent column,
   when present, misses its first cell. *)
C7_OptionalColumns ==
    /\ OptionalViews
    /\ pc = "done" =>
          \A full \in WithOptionalColumns(raw) :
              ~AbsentColumnStartsMissing(full) =>
                  ViewsOf(full, df.columns) = [tab1 |-> output.tab1,
                                               raw_data |-> output.raw_data.data]

C7_Witness ==
    /\ pc = "done"
    /\ raw.columns = RequiredCols
    /\ output.tab2 = Info /\ output.tab4 = Info
    /\ Len(output.tab3.data) = 8
    /\ filtered_df # <<>>

(* C8: after preprocessing no two rows have the same (Symbol, Date) pair,
   whatever duplicates the file held, and the rows are in ascending order of
   (Symbol, Date). *)
C8_UniqueSortedKeys ==
    pc \in AfterPreprocessing =>
        \A i, j \in 1..Len(df.rows) :
            i < j => /\ ~KeyLess(df.rows[j], df.rows[i])
                     /\ ~(/\ df.rows[i]["Symbol"] = df.rows[j]["Symbol"]
                          /\ df.rows[i]["Date"] = df.rows[j]["Date"])

\* each missing cell replaced by the nearest earlier valid cell of its column
NearestEarlier(rows, cols) ==
    [i \in 1..Len(rows) |->
        [c \in cols |->
            LET valid == {j \in 1..(i - 1) : ~IsMissing(c, rows[j][c])}
            IN  IF IsMissing(c, rows[i][c]) /\ valid # {}
                THEN rows[CHOOSE j \in valid : \A m \in valid : m <= j][c]
                ELSE rows[i][c]]]

\* the table's rows on the file's columns
FileColumnsOf(frame) == [i \in 1..Len(frame.rows) |-> Project(frame.rows[i], raw.columns)]

(* C9 as claimed: missing cells take the nearest earlier valid value of
   their column in file order, then only the rows still missing in every
   column are dropped: a row still missing in some columns is kept. *)
C9_FfillThenDropOriginal ==
    pc \in AfterPreprocessing =>
        LET some_value(r) == \E c \in raw.columns : ~IsMissing(c, r[c])
        IN  FileColumnsOf(df) =
                sort_values(parse_dates(
                    SelectSeq(NearestEarlier(raw.rows, raw.columns), some_value)))

(* C9 as amended: missing cells take the nearest earlier valid value of
   their column in file order (before any sorting), then every row still
   missing in any column is dropped. *)
C9_FfillThenDrop ==
    pc \in AfterPreprocessing =>
        LET complete(r) == \A c \in raw.columns : ~IsMissing(c, r[c])
        IN  FileColumnsOf(df) =
                sort_values(parse_dates(
                    SelectSeq(NearestEarlier(raw.rows, raw.columns), complete)))

C9_Witness ==
    /\ pc \in AfterPreprocessing
    /\ Len(raw.rows) = 2
    /\ "Volatility" \in raw.columns
    /\ IsNaN(raw.rows[1]["Volatility"]) /\ ~IsNaN(raw.rows[1]["Close"])
    /\ IsNaN(raw.rows[2]["Close"]) /\ ~IsNaN(raw.rows[2]["Volatility"])
    /\ Len(df.rows) = 1
    /\ df.rows[1]["Close"] = raw.rows[1]["Close"]
    /\ df.rows[1]["Symbol"] = raw.rows[2]["Symbol"]

(* C10: the indicator table is built once, before filtering, and is not
   changed afterwards by the filter, the tabs or the raw-data view; each row
   of the filtered view is the row of the table with the same index, with
   the table's SMA_50, SMA_200, RSI and MACD. *)
C10_TableReadOnly ==
    /\ [][(pc \in AfterIndicators) => (df' = df)]_vars
    /\ [](pc \in AfterFilter =>
            \A k \in 1..Len(filtered_df) :
                /\ filtered_df[k].index + 1 \in 1..Len(df.rows)
                /\ \A c \in IndicatorCols :
                      filtered_df[k].row[c] = df.rows[filtered_df[k].index + 1][c])

C10_Witness ==
    /\ pc = "done"
    /\ date_range = <<2, 2>>
    /\ Len(filtered_df) = 1
    /\ Len(df.rows) = 2
    /\ filtered_df[1].row["MACD"] # F(0)
    /\ output.raw_data.data = filtered_df

====
